---- MODULE Spec2Model ----
(***************************************************************************)
(* Model of the redshirt network manager                                   *)
(* (modules/network-manager/src/lib.rs) and of the native-program          *)
(* contract (core/src/native/traits.rs).                                   *)
(*                                                                         *)
(* The per-interface protocol engine (mod interface, NetInterfaceState)    *)
(* and the scheduler that drives a native program are not part of the      *)
(* sources at hand; the definitions named Engine... and the scheduler      *)
(* actions are written from the specification's contract for them.         *)
(***************************************************************************)
EXTENDS Integers, Sequences, FiniteSets, TLC

\* ---------------------------------------------------------------- bounds
MaxSockets == 1
MaxEvents == 1
MaxOut == 1
MaxMsgs == 3

\* ------------------------------------------------------------ value sets
IfIds == {"eth0", "eth1"}
UserData == {"u1", "u2"}
Addrs == {"a1"}
SocketIdx == 0 .. (MaxSockets - 1)
TcpKinds == {"TcpConnected", "TcpClosed", "TcpReadReady", "TcpWriteFinished"}
EventKinds == TcpKinds \cup {"EthernetCableOut"}
\* Link-layer frames that can arrive on the cable, abstracted to what the
\* engine makes of them: a segment for one socket, or a frame the engine
\* answers itself.
Frames == [kind : TcpKinds, socket : SocketIdx] \cup {[kind |-> "Arp", socket |-> 0]}

None == [some |-> FALSE]
Some(x) == [some |-> TRUE, val |-> x]

VARIABLES
    devices,    \* NetworkManager.devices: registered id -> Device
    order,      \* the order in which devices.iter_mut() visits the keys
    ret,        \* the last call and what it returned
    aborted,    \* the process has panicked
    stale,      \* history: the SocketIds of sockets whose Device was removed
    latest,     \* history kept by RegSpec: id -> the user data of its latest
                \* successful registration not yet followed by an
                \* unregistration; the other specifications leave it alone
    msgs,       \* driver contract: message id -> what happened to it
    drv         \* driver contract: the last step of the exchange

netVars == <<devices, order, ret, aborted, stale, latest>>
drvVars == <<msgs, drv>>
vars == <<devices, order, ret, aborted, stale, latest, msgs, drv>>

\* ------------------------------------------------- sequences and orders
Range(s) == {s[i] : i \in 1 .. Len(s)}

Perms(S) == {p \in [1 .. Cardinality(S) -> S] : Range(p) = S}

RemoveKey(s, k) == SelectSeq(s, LAMBDA x : x # k)

\* Every way of placing key k into the visiting order s.
Insertions(s, k) ==
    {SubSeq(s, 1, i) \o <<k>> \o SubSeq(s, i + 1, Len(s)) : i \in 0 .. Len(s)}

\* ----------------------------------------------------- protocol engine
\* NetInterfaceStateBuilder::build: a fresh engine. What it can route is
\* fixed when it is built.
EngineNew(routes) ==
    [sockets |-> {}, events |-> <<>>, out |-> <<>>, routes |-> routes]

EngineFreeIdx(st) == CHOOSE i \in SocketIdx \ st.sockets :
                        \A j \in SocketIdx \ st.sockets : i <= j

\* NetInterfaceState::build_tcp_socket: Ok(socket) when the engine can open
\* or listen on addr, Err otherwise. An active open queues a segment.
EngineCanBuild(st, addr) == addr \in st.routes

EngineBuildTcpSocket(st, listen, addr) ==
    LET idx == EngineFreeIdx(st) IN
    [socket |-> idx,
     st |-> [st EXCEPT !.sockets = @ \cup {idx},
                       !.out = IF listen THEN @ ELSE Append(@, "syn")]]

\* NetInterfaceState::tcp_socket_by_id
EngineTcpSocketById(st, idx) ==
    IF idx \in st.sockets THEN Some(idx) ELSE None

\* NetInterfaceState::read_ethernet_cable_out: destructive drain.
EngineReadEthernetCableOut(st) ==
    [data |-> st.out, st |-> [st EXCEPT !.out = <<>>]]

\* NetInterfaceState::inject_interface_data
EngineInjectInterfaceData(st, frame) ==
    IF frame.kind = "Arp"
    THEN [st EXCEPT !.out = Append(@, "ack")]
    ELSE IF frame.socket \in st.sockets
         THEN [st EXCEPT !.events =
                   Append(@, [kind |-> frame.kind, socket |-> frame.socket])]
         ELSE st

\* Whether a frame can be taken within the model's bounds.
EngineRoomFor(st, frame) ==
    IF frame.kind = "Arp" THEN Len(st.out) < MaxOut
    ELSE frame.socket \in st.sockets => Len(st.events) < MaxEvents

\* NetInterfaceState::next_event resolves when the engine has something to
\* report: a TCP event, or bytes waiting in the outbound buffer.
EngineReady(st) == st.events # <<>> \/ st.out # <<>>

\* The events the engine's next_event may resolve to, each with the engine
\* state it leaves. keep: whether the holder of the EthernetCableOut buffer
\* leaves the data in it.
EngineNextEvents(st) ==
    (IF st.events # <<>>
     THEN {[kind |-> Head(st.events).kind, socket |-> Head(st.events).socket,
            buffer |-> <<>>,
            st |-> [st EXCEPT !.events = Tail(@)]]}
     ELSE {})
    \cup
    (IF st.out # <<>>
     THEN {[kind |-> "EthernetCableOut", socket |-> 0, buffer |-> st.out,
            st |-> [st EXCEPT !.out = IF keep THEN @ ELSE <<>>]]
             : keep \in BOOLEAN}
     ELSE {})

\* ---------------------------------------------------- network manager
Registered == DOMAIN devices

\* struct Device
Device(inner, user_data) == [inner |-> inner, user_data |-> user_data]

\* struct TcpSocket and struct SocketId
TcpSocket(inner, device_id) == [inner |-> inner, device_id |-> device_id]
SocketId(interface, socket) == [interface |-> interface, socket |-> socket]
SocketIds == [interface : IfIds, socket : SocketIdx]

\* TcpSocket::id
TcpSocketId(h) == SocketId(h.device_id, h.inner)

\* NetworkManager::new
NetInit ==
    /\ devices = << >>
    /\ order = << >>
    /\ ret = [op |-> "new", panic |-> FALSE]
    /\ aborted = FALSE
    /\ stale = {}
    /\ latest = << >>

\* The loop of build_tcp_socket as it would be if it did not look at the
\* engine's answer: it stops at the first Device it visits.
FirstAccepting_FirstVisited(devs, ord, addr) ==
    IF ord = << >> THEN None ELSE Some(ord[1])

\* The Device the loop of build_tcp_socket stops at when it visits the
\* keys in the order ord: the first whose engine answers Ok.
FirstAccepting(devs, ord, addr) ==
    LET ok == {i \in 1 .. Len(ord) : EngineCanBuild(devs[ord[i]].inner, addr)} IN
    IF ok = {} THEN None
    ELSE Some(ord[CHOOSE i \in ok : \A j \in ok : i <= j])

\* build_tcp_socket as it would be if its loop did not return from inside:
\* every Device whose engine accepts gets a socket, and the handle of the
\* first is returned.
BuildTcpSocket_AllDevices(listen, addr) ==
    /\ ~aborted
    /\ LET first == FirstAccepting(devices, order, addr)
           acc == {d \in Registered : EngineCanBuild(devices[d].inner, addr)} IN
       IF first.some
       THEN /\ \A d \in acc :
                 /\ Cardinality(devices[d].inner.sockets) < MaxSockets
                 /\ listen \/ Len(devices[d].inner.out) < MaxOut
            /\ devices' = [d \in Registered |->
                             IF d \in acc
                             THEN [devices[d] EXCEPT
                                     !.inner = EngineBuildTcpSocket(@, listen,
                                                                    addr).st]
                             ELSE devices[d]]
            /\ ret' = [op |-> "build_tcp_socket", panic |-> FALSE,
                       addr |-> addr,
                       result |-> TcpSocket(
                           EngineBuildTcpSocket(devices[first.val].inner,
                                                listen, addr).socket,
                           first.val)]
            /\ aborted' = FALSE
       ELSE /\ devices' = devices
            /\ ret' = [op |-> "build_tcp_socket", panic |-> TRUE, addr |-> addr]
            /\ aborted' = TRUE
    /\ UNCHANGED <<order, stale, drvVars>>

\* NetworkManager::build_tcp_socket
BuildTcpSocket(listen, addr) ==
    /\ ~aborted
    /\ LET first == FirstAccepting(devices, order, addr) IN
       IF first.some
       THEN LET d == first.val
                st == devices[d].inner
                r == EngineBuildTcpSocket(st, listen, addr) IN
            /\ Cardinality(st.sockets) < MaxSockets
            /\ listen \/ Len(st.out) < MaxOut
            /\ devices' = [devices EXCEPT ![d].inner = r.st]
            /\ ret' = [op |-> "build_tcp_socket", panic |-> FALSE,
                       addr |-> addr, result |-> TcpSocket(r.socket, d)]
            /\ aborted' = FALSE
       ELSE /\ devices' = devices
            /\ ret' = [op |-> "build_tcp_socket", panic |-> TRUE, addr |-> addr]
            /\ aborted' = TRUE
    /\ UNCHANGED <<order, stale, drvVars>>

\* tcp_socket_by_id as it would be if it trusted the identifier: no lookup
\* of the Device in the registry.
TcpSocketByIdResult_Trusting(id) ==
    IF id.interface \in Registered
    THEN LET inner == EngineTcpSocketById(devices[id.interface].inner, id.socket) IN
         IF inner.some THEN Some(TcpSocket(inner.val, id.interface)) ELSE None
    ELSE Some(TcpSocket(id.socket, id.interface))

\* tcp_socket_by_id as it would be if it searched the Devices for the index
\* and ignored id.interface: the first Device visited that has a socket of
\* that index answers.
TcpSocketByIdResult_AnyDevice(id) ==
    LET has == {i \in 1 .. Len(order) :
                  EngineTcpSocketById(devices[order[i]].inner, id.socket).some} IN
    IF has = {} THEN None
    ELSE Some(TcpSocket(id.socket,
                        order[CHOOSE i \in has : \A j \in has : i <= j]))

\* What tcp_socket_by_id returns for id.
TcpSocketByIdResult(id) ==
    IF id.interface \notin Registered THEN None
    ELSE LET inner == EngineTcpSocketById(devices[id.interface].inner, id.socket) IN
         IF inner.some THEN Some(TcpSocket(inner.val, id.interface)) ELSE None

\* NetworkManager::tcp_socket_by_id
TcpSocketById(id) ==
    /\ ~aborted
    /\ ret' = [op |-> "tcp_socket_by_id", panic |-> FALSE, id |-> id,
               result |-> TcpSocketByIdResult(id)]
    /\ UNCHANGED <<devices, order, aborted, stale, drvVars>>

\* register_interface as it would be with HashMap::insert in place of the
\* entry match: an occupied entry is replaced.
RegisterInterface_Overwrite(id, user_data) ==
    /\ ~aborted
    /\ \E routes \in SUBSET Addrs :
         devices' = [i \in Registered \cup {id} |->
                       IF i = id THEN Device(EngineNew(routes), user_data)
                       ELSE devices[i]]
    /\ order' \in (IF id \in Registered THEN {order} ELSE Insertions(order, id))
    /\ ret' = [op |-> "register_interface", panic |-> FALSE, id |-> id,
               user_data |-> user_data, result |-> "Ok"]
    /\ UNCHANGED <<aborted, stale, drvVars>>

\* NetworkManager::register_interface
RegisterInterface(id, user_data) ==
    /\ ~aborted
    /\ IF id \in Registered
       THEN /\ ret' = [op |-> "register_interface", panic |-> FALSE, id |-> id,
                       user_data |-> user_data, result |-> "Err"]
            /\ UNCHANGED <<devices, order>>
       ELSE /\ \E routes \in SUBSET Addrs :
                 devices' = [i \in Registered \cup {id} |->
                               IF i = id THEN Device(EngineNew(routes), user_data)
                               ELSE devices[i]]
            /\ order' \in Insertions(order, id)
            /\ ret' = [op |-> "register_interface", panic |-> FALSE, id |-> id,
                       user_data |-> user_data, result |-> "Ok"]
    /\ UNCHANGED <<aborted, stale, drvVars>>

\* unregister_interface as it would be if it emptied the map
\* (devices.clear() in place of devices.remove(id)).
UnregisterInterface_Clear(id) ==
    /\ ~aborted
    /\ devices' = << >>
    /\ order' = << >>
    /\ stale' = stale \cup
                  {sid \in SocketIds :
                     /\ sid.interface \in Registered
                     /\ sid.socket \in devices[sid.interface].inner.sockets}
    /\ ret' = [op |-> "unregister_interface", panic |-> FALSE, id |-> id]
    /\ UNCHANGED <<aborted, drvVars>>

\* unregister_interface as it would be if it left the Device in the map.
UnregisterInterface_Lazy(id) ==
    /\ ~aborted
    /\ ret' = [op |-> "unregister_interface", panic |-> FALSE, id |-> id]
    /\ UNCHANGED <<devices, order, stale, aborted, drvVars>>

\* unregister_interface as it would be if it unwrapped what remove
\* returns, as the accessors unwrap get_mut.
UnregisterInterface_Unwrap(id) ==
    /\ ~aborted
    /\ devices' = [i \in Registered \ {id} |-> devices[i]]
    /\ order' = RemoveKey(order, id)
    /\ stale' = stale \cup
                  (IF id \in Registered
                   THEN {SocketId(id, s) : s \in devices[id].inner.sockets}
                   ELSE {})
    /\ ret' = [op |-> "unregister_interface", panic |-> id \notin Registered,
               id |-> id]
    /\ aborted' = (id \notin Registered)
    /\ UNCHANGED drvVars

\* NetworkManager::unregister_interface
UnregisterInterface(id) ==
    /\ ~aborted
    /\ devices' = [i \in Registered \ {id} |-> devices[i]]
    /\ order' = RemoveKey(order, id)
    /\ stale' = stale \cup
                  (IF id \in Registered
                   THEN {SocketId(id, s) : s \in devices[id].inner.sockets}
                   ELSE {})
    /\ ret' = [op |-> "unregister_interface", panic |-> FALSE, id |-> id]
    /\ UNCHANGED <<aborted, drvVars>>

\* NetworkManager::interface_user_data: the caller gets &mut user_data and
\* may write through it.
InterfaceUserData(id, write) ==
    /\ ~aborted
    /\ IF id \in Registered
       THEN /\ devices' = [devices EXCEPT ![id].user_data = write]
            /\ ret' = [op |-> "interface_user_data", panic |-> FALSE, id |-> id,
                       result |-> devices[id].user_data]
            /\ aborted' = FALSE
       ELSE /\ devices' = devices
            /\ ret' = [op |-> "interface_user_data", panic |-> TRUE, id |-> id]
            /\ aborted' = TRUE
    /\ UNCHANGED <<order, stale, drvVars>>

\* The result of the call before this one, when that call was
\* read_ethernet_cable_out(id) too.
PriorRead(id) ==
    IF ret.op = "read_ethernet_cable_out" /\ ~ret.panic /\ ret.id = id
    THEN Some(ret.result) ELSE None

\* read_ethernet_cable_out as it would be if it drained a copy of the
\* Device (get(id).cloned() in place of get_mut(id)).
ReadEthernetCableOut_OnCopy(id) ==
    /\ ~aborted
    /\ IF id \in Registered
       THEN LET r == EngineReadEthernetCableOut(devices[id].inner) IN
            /\ devices' = devices
            /\ ret' = [op |-> "read_ethernet_cable_out", panic |-> FALSE,
                       id |-> id, result |-> r.data, prior |-> PriorRead(id)]
            /\ aborted' = FALSE
       ELSE /\ devices' = devices
            /\ ret' = [op |-> "read_ethernet_cable_out", panic |-> TRUE, id |-> id]
            /\ aborted' = TRUE
    /\ UNCHANGED <<order, stale, drvVars>>

\* NetworkManager::read_ethernet_cable_out
ReadEthernetCableOut(id) ==
    /\ ~aborted
    /\ IF id \in Registered
       THEN LET r == EngineReadEthernetCableOut(devices[id].inner) IN
            /\ devices' = [devices EXCEPT ![id].inner = r.st]
            /\ ret' = [op |-> "read_ethernet_cable_out", panic |-> FALSE,
                       id |-> id, result |-> r.data, prior |-> PriorRead(id)]
            /\ aborted' = FALSE
       ELSE /\ devices' = devices
            /\ ret' = [op |-> "read_ethernet_cable_out", panic |-> TRUE, id |-> id]
            /\ aborted' = TRUE
    /\ UNCHANGED <<order, stale, drvVars>>

\* inject_interface_data as it would be if it handed the data to every
\* Device (values_mut() in place of get_mut(id)).
InjectInterfaceData_Broadcast(id, data) ==
    /\ ~aborted
    /\ IF id \in Registered
       THEN /\ \A d \in Registered : EngineRoomFor(devices[d].inner, data)
            /\ devices' = [d \in Registered |->
                             [devices[d] EXCEPT
                                !.inner = EngineInjectInterfaceData(@, data)]]
            /\ ret' = [op |-> "inject_interface_data", panic |-> FALSE, id |-> id]
            /\ aborted' = FALSE
       ELSE /\ devices' = devices
            /\ ret' = [op |-> "inject_interface_data", panic |-> TRUE, id |-> id]
            /\ aborted' = TRUE
    /\ UNCHANGED <<order, stale, drvVars>>

\* NetworkManager::inject_interface_data
InjectInterfaceData(id, data) ==
    /\ ~aborted
    /\ IF id \in Registered
       THEN /\ EngineRoomFor(devices[id].inner, data)
            /\ devices' = [devices EXCEPT
                             ![id].inner = EngineInjectInterfaceData(@, data)]
            /\ ret' = [op |-> "inject_interface_data", panic |-> FALSE, id |-> id]
            /\ aborted' = FALSE
       ELSE /\ devices' = devices
            /\ ret' = [op |-> "inject_interface_data", panic |-> TRUE, id |-> id]
            /\ aborted' = TRUE
    /\ UNCHANGED <<order, stale, drvVars>>

\* future::select_all polls its futures in the order it was given them and
\* resolves with the first that is ready: the first ready Device in the
\* visiting order, None when only the pending() placeholder is left.
FirstReady(devs, ord) ==
    LET rdy == {i \in 1 .. Len(ord) : EngineReady(devs[ord[i]].inner)} IN
    IF rdy = {} THEN None
    ELSE Some(ord[CHOOSE i \in rdy : \A j \in rdy : i <= j])

\* The events as next_event would build them if it tagged them with the
\* first key of the map in place of the key that came with the event.
NetworkManagerEvent_FirstKey(device_id, user_data, ev) ==
    IF ev.kind = "EthernetCableOut"
    THEN [op |-> "next_event", panic |-> FALSE, pending |-> FALSE,
          kind |-> ev.kind, device_id |-> Some(order[1]),
          user_data |-> Some(user_data), socket |-> None,
          buffer |-> ev.buffer]
    ELSE [op |-> "next_event", panic |-> FALSE, pending |-> FALSE,
          kind |-> ev.kind, device_id |-> None,
          user_data |-> None, socket |-> Some(TcpSocket(ev.socket, order[1])),
          buffer |-> <<>>]

\* enum NetworkManagerEvent, as next_event builds it from the event ev of
\* the Device device_id: EthernetCableOut carries the Device's id, a handle
\* to its user data and the buffer; the four TCP events carry a TcpSocket
\* and nothing else.
NetworkManagerEvent(device_id, user_data, ev) ==
    IF ev.kind = "EthernetCableOut"
    THEN [op |-> "next_event", panic |-> FALSE, pending |-> FALSE,
          kind |-> ev.kind, device_id |-> Some(device_id),
          user_data |-> Some(user_data), socket |-> None,
          buffer |-> ev.buffer]
    ELSE [op |-> "next_event", panic |-> FALSE, pending |-> FALSE,
          kind |-> ev.kind, device_id |-> None,
          user_data |-> None, socket |-> Some(TcpSocket(ev.socket, device_id)),
          buffer |-> <<>>]

\* The Device an event names: the id it carries, or the device_id of the
\* TcpSocket it carries.
EventDevice(event) ==
    IF event.kind = "EthernetCableOut" THEN event.device_id.val
    ELSE event.socket.val.device_id

\* What polling an engine's next_event to completion takes from it.
EngineConsumeOne(st) ==
    IF st.events # <<>> THEN [st EXCEPT !.events = Tail(@)]
    ELSE [st EXCEPT !.out = <<>>]

\* next_event as it would be if it drove every Device's future to
\* completion and returned the first result (join_all in place of
\* select_all).
NextEvent_PollAll ==
    /\ ~aborted
    /\ LET first == FirstReady(devices, order) IN
       IF first.some
       THEN LET d == first.val IN
            \E ev \in EngineNextEvents(devices[d].inner) :
              /\ devices' = [o \in Registered |->
                               IF o = d THEN [devices[o] EXCEPT !.inner = ev.st]
                               ELSE IF EngineReady(devices[o].inner)
                                    THEN [devices[o] EXCEPT
                                            !.inner = EngineConsumeOne(@)]
                                    ELSE devices[o]]
              /\ ret' = NetworkManagerEvent(d, devices[d].user_data, ev)
       ELSE /\ devices' = devices
            /\ ret' = [op |-> "next_event", panic |-> FALSE, pending |-> TRUE]
    /\ UNCHANGED <<order, aborted, stale, drvVars>>

\* next_event as it would be without the chained future::pending():
\* select_all panics when it is given no future at all.
NextEvent_NoPlaceholder ==
    /\ ~aborted
    /\ LET first == FirstReady(devices, order) IN
       IF first.some
       THEN LET d == first.val IN
            \E ev \in EngineNextEvents(devices[d].inner) :
              /\ devices' = [devices EXCEPT ![d].inner = ev.st]
              /\ ret' = NetworkManagerEvent(d, devices[d].user_data, ev)
              /\ aborted' = FALSE
       ELSE /\ devices' = devices
            /\ ret' = [op |-> "next_event", panic |-> Registered = {},
                       pending |-> Registered # {}]
            /\ aborted' = (Registered = {})
    /\ UNCHANGED <<order, stale, drvVars>>

\* NetworkManager::next_event, polled once: it resolves to one event, or
\* stays pending.
NextEvent ==
    /\ ~aborted
    /\ LET first == FirstReady(devices, order) IN
       IF first.some
       THEN LET d == first.val IN
            \E ev \in EngineNextEvents(devices[d].inner) :
              /\ devices' = [devices EXCEPT ![d].inner = ev.st]
              /\ ret' = NetworkManagerEvent(d, devices[d].user_data, ev)
       ELSE /\ devices' = devices
            /\ ret' = [op |-> "next_event", panic |-> FALSE, pending |-> TRUE]
    /\ UNCHANGED <<order, aborted, stale, drvVars>>

\* TcpSocket::close, on the handle tcp_socket_by_id(id) returned: the body
\* is empty.
TcpSocketClose(id) ==
    /\ ~aborted
    /\ TcpSocketByIdResult(id).some
    /\ ret' = [op |-> "close", panic |-> FALSE, id |-> id]
    /\ UNCHANGED <<devices, order, aborted, stale, drvVars>>

NetNext ==
    \/ \E listen \in BOOLEAN, addr \in Addrs :
         BuildTcpSocket(listen, addr) /\ UNCHANGED latest
    \/ \E id \in SocketIds : TcpSocketById(id) /\ UNCHANGED latest
    \/ \E id \in IfIds, u \in UserData :
         RegisterInterface(id, u) /\ UNCHANGED latest
    \/ \E id \in IfIds : UnregisterInterface(id) /\ UNCHANGED latest
    \/ \E id \in IfIds, u \in UserData :
         InterfaceUserData(id, u) /\ UNCHANGED latest
    \/ \E id \in IfIds : ReadEthernetCableOut(id) /\ UNCHANGED latest
    \/ \E id \in IfIds, data \in Frames :
         InjectInterfaceData(id, data) /\ UNCHANGED latest
    \/ NextEvent /\ UNCHANGED latest
    \/ \E id \in SocketIds : TcpSocketClose(id) /\ UNCHANGED latest

\* Only register_interface and unregister_interface are called, and latest
\* records what the calls that succeeded registered.
RegRegister(id, user_data) ==
    /\ RegisterInterface(id, user_data)
    /\ latest' = IF ret'.result = "Ok"
                 THEN [i \in DOMAIN latest \cup {id} |->
                         IF i = id THEN user_data ELSE latest[i]]
                 ELSE latest

RegUnregister(id) ==
    /\ UnregisterInterface(id)
    /\ latest' = [i \in DOMAIN latest \ {id} |-> latest[i]]

RegNext ==
    \/ \E id \in IfIds, u \in UserData : RegRegister(id, u)
    \/ \E id \in IfIds : RegUnregister(id)

\* ------------------------------------------- native program contract
\* A native program (the driver) and the scheduler that polls it. msgs is
\* the sequence of the messages the driver emitted; a message's MessageId
\* is its place in it.
MsgIds == 1 .. Len(msgs)

DrvInit ==
    /\ msgs = << >>
    /\ drv = [op |-> "none", message_id |-> 0]

\* NativeProgramEvent::Emit: next_event resolves to Emit, with
\* message_id_write = Some(..) (wb) or None; the scheduler attributes the
\* MessageId.
Emit(wb) ==
    /\ Len(msgs) < MaxMsgs
    /\ msgs' = Append(msgs, [wb |-> wb, acks |-> 0, answered |-> FALSE,
                             responses |-> 0, cancelled |-> FALSE])
    /\ drv' = [op |-> "Emit", message_id |-> Len(msgs) + 1]
    /\ UNCHANGED netVars

\* NativeProgramMessageIdWrite::acknowledge: the scheduler consumes the
\* write-back object of the Emit.
Acknowledge(id) ==
    /\ msgs[id].wb
    /\ msgs[id].acks = 0
    /\ msgs' = [msgs EXCEPT ![id].acks = 1]
    /\ drv' = [op |-> "acknowledge", message_id |-> id]
    /\ UNCHANGED netVars

\* The recipient of message id answers it (with a payload or an error).
RecipientAnswers(id) ==
    /\ ~msgs[id].answered
    /\ msgs' = [msgs EXCEPT ![id].answered = TRUE]
    /\ drv' = [op |-> "answer", message_id |-> id]
    /\ UNCHANGED netVars

\* The scheduler as it would be if it passed on every answer, also to a
\* message emitted without a write-back object.
MayRespond_Uncorrelated(id) ==
    /\ msgs[id].wb => msgs[id].acks = 1
    /\ msgs[id].answered
    /\ msgs[id].responses = 0
    /\ ~msgs[id].cancelled

\* The scheduler as it would be if it passed an answer on without having
\* written the MessageId back first.
MayRespond_BeforeAcknowledge(id) ==
    /\ msgs[id].wb
    /\ msgs[id].answered
    /\ msgs[id].responses = 0
    /\ ~msgs[id].cancelled

\* Whether the scheduler passes the answer to message id on to the driver.
MayRespond(id) ==
    /\ msgs[id].wb
    /\ msgs[id].acks = 1
    /\ msgs[id].answered
    /\ msgs[id].responses = 0
    /\ ~msgs[id].cancelled

\* NativeProgramRef::message_response
MessageResponse(id) ==
    /\ MayRespond(id)
    /\ msgs' = [msgs EXCEPT ![id].responses = @ + 1]
    /\ drv' = [op |-> "message_response", message_id |-> id]
    /\ UNCHANGED netVars

\* NativeProgramEvent::CancelMessage: the driver withdraws a message it was
\* told the id of and that has not been answered to it.
CancelMessage(id) ==
    /\ msgs[id].wb
    /\ msgs[id].acks = 1
    /\ msgs[id].responses = 0
    /\ ~msgs[id].cancelled
    /\ msgs' = [msgs EXCEPT ![id].cancelled = TRUE]
    /\ drv' = [op |-> "CancelMessage", message_id |-> id]
    /\ UNCHANGED netVars

DrvNext ==
    \/ \E wb \in BOOLEAN : Emit(wb)
    \/ \E id \in MsgIds : Acknowledge(id)
    \/ \E id \in MsgIds : RecipientAnswers(id)
    \/ \E id \in MsgIds : MessageResponse(id)
    \/ \E id \in MsgIds : CancelMessage(id)

\* ------------------------------------------------------ specifications
Init == NetInit /\ DrvInit

\* The network manager and its callers.
Spec == Init /\ [][NetNext]_vars

\* The same, with a scheduler that keeps polling next_event.
FairSpec == Spec /\ WF_vars(NextEvent /\ UNCHANGED latest)

\* A caller that only registers and unregisters interfaces.
RegSpec == Init /\ [][RegNext]_vars

\* The driver and its scheduler; the scheduler acknowledges every Emit that
\* asks for it.
DrvSpec == Init /\ [][DrvNext]_vars
               /\ \A id \in 1 .. MaxMsgs : WF_vars(id \in MsgIds /\ Acknowledge(id))

\* ------------------------------------------------------------- claims
\* C1: register_interface with an id that is registered returns Err and
\* changes nothing: the same ids are registered, in the same order, each
\* Device keeps its engine state and its user data, and the user data of
\* the failed call is stored nowhere.
C1_DuplicateRegisterChangesNothing ==
    [][\A id \in IfIds :
         (ret'.op = "register_interface" /\ ret'.id = id /\ id \in Registered)
         => /\ ret'.result = "Err"
            /\ devices' = devices
            /\ order' = order
            /\ aborted' = aborted]_vars

\* A failed registration happened on a Device that has a socket and other
\* user data than the call passed.
C1_Witness ==
    /\ ret.op = "register_interface"
    /\ ret.result = "Err"
    /\ ret.id \in Registered
    /\ devices[ret.id].inner.sockets # {}
    /\ devices[ret.id].user_data # ret.user_data

\* C2: as long as an unregistered id is not registered again,
\* tcp_socket_by_id on a SocketId of that interface returns None, for the
\* call made and for every SocketId one of its sockets had, and the call
\* does not panic.
C2_UnregisteredResolvesToNone ==
    /\ (ret.op = "tcp_socket_by_id" /\ ret.id.interface \notin Registered)
       => (ret.result = None /\ ~ret.panic /\ ~aborted)
    /\ \A id \in stale :
         id.interface \notin Registered => TcpSocketByIdResult(id) = None

\* The SocketId of a socket of a removed Device was looked up and not found.
C2_Witness ==
    /\ ret.op = "tcp_socket_by_id"
    /\ ret.id \in stale
    /\ ret.id.interface \notin Registered
    /\ ret.result = None

\* C3: next_event polled when no Device is registered, or when no
\* registered Device has an event, stays pending: it returns no event,
\* does not panic and changes nothing.
C3_NextEventStaysPending ==
    [][(ret'.op = "next_event"
        /\ \A d \in Registered : ~EngineReady(devices[d].inner))
       => /\ ~ret'.panic
          /\ ret'.pending
          /\ ~aborted'
          /\ devices' = devices
          /\ order' = order]_vars

\* next_event was polled and is pending while every interface is
\* registered, has a socket and is idle.
C3_Witness ==
    /\ ret.op = "next_event"
    /\ ret.pending
    /\ Registered = IfIds
    /\ \A d \in Registered :
         devices[d].inner.sockets # {} /\ ~EngineReady(devices[d].inner)

\* next_event was polled and is pending while no Device is registered.
C3_WitnessEmpty ==
    ret.op = "next_event" /\ ret.pending /\ Registered = {}

\* Device d is registered and its engine has something to report.
HasPendingEvent(d) == d \in Registered /\ EngineReady(devices[d].inner)

\* The last next_event resolved to an event of Device d.
DeliveredFrom(d) ==
    ret.op = "next_event" /\ ~ret.pending /\ EventDevice(ret) = d

\* C4: when both interfaces have a pending event, repeated next_event
\* calls eventually deliver an event of each of them (unless its event is
\* withdrawn meanwhile, by a drain or by unregistering it), also when the
\* other interface is ready again on every call.
C4_NoStarvation ==
    \A d \in IfIds :
      (\A i \in IfIds : HasPendingEvent(i))
        ~> (DeliveredFrom(d) \/ ~HasPendingEvent(d) \/ aborted)

\* C5: a next_event call that resolves surfaces one event of one Device,
\* the one it is tagged with: that Device loses the one TCP event returned
\* (or hands out its outbound buffer), and every other Device, ready or
\* not, keeps its pending events, buffer, sockets and user data.
C5_OneEventPerCall ==
    [][(ret'.op = "next_event" /\ ~ret'.pending)
       => LET d == EventDevice(ret')
              old == devices[d].inner
              new == devices'[d].inner IN
          /\ d \in Registered
          /\ DOMAIN devices' = Registered
          /\ \A o \in Registered \ {d} : devices'[o] = devices[o]
          /\ devices'[d].user_data = devices[d].user_data
          /\ new.sockets = old.sockets
          /\ \/ /\ ret'.kind \in TcpKinds
                /\ old.events = <<[kind |-> ret'.kind,
                                   socket |-> ret'.socket.val.inner]>> \o new.events
                /\ new.out = old.out
             \/ /\ ret'.kind = "EthernetCableOut"
                /\ new.events = old.events
                /\ ret'.buffer = old.out
                /\ old.out # <<>>
                /\ new.out \in {<<>>, old.out}]_vars

\* next_event resolved to an event of one Device while the other Device
\* still holds a TCP event and outbound bytes.
C5_Witness ==
    /\ ret.op = "next_event"
    /\ ~ret.pending
    /\ \E o \in Registered \ {EventDevice(ret)} :
         devices[o].inner.events # <<>> /\ devices[o].inner.out # <<>>

\* The one registered Device whose engine accepts addr, if there is
\* exactly one.
UniqueRouter(addr) ==
    LET can == {d \in Registered : EngineCanBuild(devices[d].inner, addr)} IN
    IF Cardinality(can) = 1 THEN Some(CHOOSE d \in can : TRUE) ELSE None

\* C6: when exactly one registered Device can route addr, the loop of
\* build_tcp_socket stops at that Device in whatever order the Devices are
\* visited, and a build_tcp_socket(addr) call returns a handle of that
\* Device and creates the socket there.
C6_UniqueRouterSelected ==
    /\ [](\A addr \in Addrs :
            UniqueRouter(addr).some
            => \A ord \in Perms(Registered) :
                 FirstAccepting(devices, ord, addr) = UniqueRouter(addr))
    /\ [][(ret'.op = "build_tcp_socket" /\ UniqueRouter(ret'.addr).some)
          => LET d == UniqueRouter(ret'.addr).val IN
             /\ ~ret'.panic
             /\ ret'.result.device_id = d
             /\ devices'[d].inner.sockets
                  = devices[d].inner.sockets \cup {ret'.result.inner}
             /\ ret'.result.inner \notin devices[d].inner.sockets]_vars

\* build_tcp_socket returned a handle of the Device visited second, the
\* only one of the two that can route the address.
C6_Witness ==
    /\ ret.op = "build_tcp_socket"
    /\ ~ret.panic
    /\ Registered = IfIds
    /\ UniqueRouter(ret.addr) = Some(ret.result.device_id)
    /\ order[2] = ret.result.device_id

\* C7: read_ethernet_cable_out(id) returns the bytes pending in the
\* outbound buffer of Device id and leaves the buffer empty; a second call
\* directly after it returns the empty buffer.
C7_DrainThenEmpty ==
    [][\A id \in IfIds :
         (ret'.op = "read_ethernet_cable_out" /\ ret'.id = id /\ id \in Registered)
         => /\ ~ret'.panic
            /\ ret'.result = devices[id].inner.out
            /\ devices'[id].inner.out = <<>>
            /\ (ret'.prior.some => ret'.result = <<>>)]_vars

\* Two consecutive drains of one interface: the first returned bytes, the
\* second nothing.
C7_Witness ==
    /\ ret.op = "read_ethernet_cable_out"
    /\ ~ret.panic
    /\ ret.prior.some
    /\ ret.prior.val # <<>>
    /\ ret.result = <<>>

C9_FireAndForgetNoResponse ==
    \A id \in MsgIds :
      ~msgs[id].wb
      => /\ msgs[id].responses = 0
         /\ msgs[id].acks = 0
         /\ ~(drv.op \in {"message_response", "acknowledge"}
              /\ drv.message_id = id)

\* A message emitted without write-back was answered by its recipient and
\* the answer went nowhere, while another message got its response.
C9_Witness ==
    /\ \E id \in MsgIds :
         ~msgs[id].wb /\ msgs[id].answered /\ msgs[id].responses = 0
    /\ \E id \in MsgIds : msgs[id].responses = 1

\* C10: for a message emitted with a write-back object, acknowledge is
\* called once (never twice, and eventually once), a message_response for
\* it is delivered only after that call, and no message has a response
\* without an acknowledge.
C10_AcknowledgeOnceBeforeResponse ==
    /\ [](\A id \in MsgIds :
            /\ msgs[id].acks <= 1
            /\ msgs[id].responses > 0 => msgs[id].acks = 1)
    /\ [][\A id \in MsgIds :
            /\ (drv'.op = "message_response" /\ drv'.message_id = id)
               => msgs[id].acks = 1
            /\ (drv'.op = "acknowledge" /\ drv'.message_id = id)
               => (msgs[id].wb /\ msgs[id].acks = 0 /\ msgs[id].responses = 0)]_vars
    /\ \A id \in 1 .. MaxMsgs :
         (id \in MsgIds /\ msgs[id].wb) ~> (id \in MsgIds /\ msgs[id].acks = 1)

\* A message_response was delivered for a message whose id had been
\* written back once.
C10_Witness ==
    /\ drv.op = "message_response"
    /\ msgs[drv.message_id].wb
    /\ msgs[drv.message_id].acks = 1
    /\ msgs[drv.message_id].responses = 1

\* C15: in every state a sequence of register_interface and
\* unregister_interface calls reaches, the map holds one Device per id (the
\* keys are visited once each), the registered ids are exactly the ids
\* whose latest successful registration was not followed by an
\* unregistration, and each Device holds the user data of that
\* registration.
C15_RegistryIsLatestRegistrations ==
    /\ Len(order) = Cardinality(Registered)
    /\ Range(order) = Registered
    /\ Registered = DOMAIN latest
    /\ \A id \in Registered : devices[id].user_data = latest[id]

\* An id is registered with the user data of its latest successful
\* registration, and a further registration of it with other user data
\* was just refused.
C15_Witness ==
    /\ ret.op = "register_interface"
    /\ ret.result = "Err"
    /\ ret.id = "eth0"
    /\ ret.user_data = "u1"
    /\ Registered = {"eth0"}
    /\ devices["eth0"].user_data = "u2"
    /\ latest = [i \in {"eth0"} |-> "u2"]

\* C11: interface_user_data, read_ethernet_cable_out and
\* inject_interface_data called with an id that is not registered fail
\* cleanly: the call returns without a panic, the process is not aborted
\* and the registry is as it was.
C11_UnregisteredAccessFailsCleanly ==
    [][(/\ ret'.op \in {"interface_user_data", "read_ethernet_cable_out",
                        "inject_interface_data"}
        /\ ret'.id \notin Registered)
       => /\ ~ret'.panic
          /\ ~aborted'
          /\ devices' = devices
          /\ order' = order]_vars

\* C12: build_tcp_socket(addr) called when no registered Device can route
\* addr, also when no Device is registered, reports a recoverable error:
\* the call returns without a panic, the process is not aborted and no
\* Device gets a socket.
C12_NoRouteIsRecoverable ==
    [][(/\ ret'.op = "build_tcp_socket"
        /\ ~FirstAccepting(devices, order, ret'.addr).some)
       => /\ ~ret'.panic
          /\ ~aborted'
          /\ devices' = devices]_vars

\* C13: after close() on the handle of a Socket Identifier, the socket is
\* gone from its protocol engine and tcp_socket_by_id with that identifier
\* returns nothing.
C13_CloseInvalidatesIdentifier ==
    ret.op = "close"
    => /\ TcpSocketByIdResult(ret.id) = None
       /\ ret.id.interface \in Registered
            => ret.id.socket \notin devices[ret.id.interface].inner.sockets

\* C14: identifier round trip. A handle that build_tcp_socket returns or a
\* TCP event carries is the handle of a socket its Device holds; a Device
\* that stays registered keeps its sockets, whatever is called; and for
\* every socket a registered Device holds, tcp_socket_by_id of the id() of
\* its handle returns a handle of the same socket of the same Device, with
\* the same id().
C14_IdentifierRoundTrip ==
    /\ [](\A d \in Registered : \A s \in devices[d].inner.sockets :
            LET h == TcpSocket(s, d)
                r == TcpSocketByIdResult(TcpSocketId(h)) IN
            /\ r = Some(h)
            /\ TcpSocketId(r.val) = TcpSocketId(h))
    /\ [][/\ \A d \in Registered \cap DOMAIN devices' :
               devices[d].inner.sockets \subseteq devices'[d].inner.sockets
          /\ (ret'.op = "build_tcp_socket" /\ ~ret'.panic)
               => /\ ret'.result.device_id \in DOMAIN devices'
                  /\ ret'.result.inner
                       \in devices'[ret'.result.device_id].inner.sockets
          /\ (ret'.op = "next_event" /\ ~ret'.pending /\ ret'.socket.some)
               => /\ ret'.socket.val.device_id \in DOMAIN devices'
                  /\ ret'.socket.val.inner
                       \in devices'[ret'.socket.val.device_id].inner.sockets
          /\ (/\ ret'.op = "tcp_socket_by_id"
              /\ ret'.id.interface \in Registered
              /\ ret'.id.socket \in devices[ret'.id.interface].inner.sockets)
               => /\ ret'.result = Some(TcpSocket(ret'.id.socket,
                                                  ret'.id.interface))
                  /\ TcpSocketId(ret'.result.val) = ret'.id]_vars

\* The identifier of a socket of the Device visited second was resolved to
\* that socket, while the Device visited first holds a socket of the same
\* index, and after data was injected for the Device and its outbound
\* bytes were produced.
C14_Witness ==
    /\ ret.op = "tcp_socket_by_id"
    /\ ret.result = Some(TcpSocket(ret.id.socket, ret.id.interface))
    /\ Len(order) = 2
    /\ ret.id.interface = order[2]
    /\ ret.id.socket \in devices[order[1]].inner.sockets
    /\ devices[order[2]].inner.events # <<>>
    /\ devices[order[2]].inner.out # <<>>

\* C17: a build_tcp_socket call that succeeds creates one socket in one
\* Device, also when several Devices can route the address: the Device is
\* the first in the visiting order whose engine accepts, the handle
\* returned names that Device and the new socket, and every other Device
\* is as it was.
C17_BuildCreatesOneSocket ==
    [][(ret'.op = "build_tcp_socket" /\ ~ret'.panic)
       => LET d == ret'.result.device_id
              first == FirstAccepting(devices, order, ret'.addr) IN
          /\ first = Some(d)
          /\ \A i \in 1 .. Len(order) :
               (order[i] = d) =>
                 \A j \in 1 .. (i - 1) :
                   ~EngineCanBuild(devices[order[j]].inner, ret'.addr)
          /\ DOMAIN devices' = Registered
          /\ \A o \in Registered \ {d} : devices'[o] = devices[o]
          /\ ret'.result.inner \notin devices[d].inner.sockets
          /\ devices'[d].inner.sockets =
               devices[d].inner.sockets \cup {ret'.result.inner}
          /\ devices'[d].user_data = devices[d].user_data]_vars

\* A socket was created in the Device visited first while the Device
\* visited second can route the address too and has no socket.
C17_Witness ==
    /\ ret.op = "build_tcp_socket"
    /\ ~ret.panic
    /\ Len(order) = 2
    /\ ret.result.device_id = order[1]
    /\ \A d \in Registered : EngineCanBuild(devices[d].inner, ret.addr)
    /\ devices[order[2]].inner.sockets = {}

\* C18: register_interface returns Ok exactly when the id is not
\* registered; the Device it then creates has a fresh protocol engine (no
\* socket, no pending event, empty outbound buffer) and the user data of
\* this call, and the other Devices are as they were. In particular a
\* registration that directly follows the unregistration of the same id
\* succeeds.
C18_RegisterSucceedsIffUnregistered ==
    [][/\ ret'.op = "register_interface"
          => /\ (ret'.result = "Ok") <=> (ret'.id \notin Registered)
             /\ (ret'.result = "Ok")
                  => /\ DOMAIN devices' = Registered \cup {ret'.id}
                     /\ devices'[ret'.id].user_data = ret'.user_data
                     /\ devices'[ret'.id].inner.sockets = {}
                     /\ devices'[ret'.id].inner.events = << >>
                     /\ devices'[ret'.id].inner.out = << >>
                     /\ \A o \in Registered : devices'[o] = devices[o]
       /\ (/\ ret.op = "unregister_interface"
           /\ ret'.op = "register_interface"
           /\ ret'.id = ret.id)
          => ret'.result = "Ok"]_vars

\* An id whose Device had a socket and was unregistered has just been
\* registered again, with success: its Device has the user data of this
\* registration and no socket.
C18_Witness ==
    /\ ret.op = "register_interface"
    /\ ret.result = "Ok"
    /\ \E sid \in stale : sid.interface = ret.id
    /\ devices[ret.id].user_data = ret.user_data
    /\ devices[ret.id].inner.sockets = {}

\* C19: a Socket Identifier obtained from a Device that was unregistered
\* since never resolves again: tcp_socket_by_id called with it returns
\* nothing, also after the same interface id was registered again and the
\* new Device created a socket of the same index.
C19_StaleIdentifierNeverResolves ==
    (ret.op = "tcp_socket_by_id" /\ ret.id \in stale) => ret.result = None

\* C20: unregister_interface(id) removes the Device of id and nothing
\* else: every other Device is as it was and is visited in the same order;
\* with an id that is not registered the call changes nothing; in both
\* cases it returns without a panic.
C20_UnregisterRemovesOnlyItsDevice ==
    [][ret'.op = "unregister_interface"
       => /\ ~ret'.panic
          /\ ~aborted'
          /\ DOMAIN devices' = Registered \ {ret'.id}
          /\ \A o \in Registered \ {ret'.id} : devices'[o] = devices[o]
          /\ order' = RemoveKey(order, ret'.id)
          /\ ret'.id \notin Registered
               => (devices' = devices /\ order' = order)]_vars

\* A Device that had a socket was unregistered, and the Device that is
\* left has its socket, pending event and outbound bytes.
C20_Witness ==
    /\ ret.op = "unregister_interface"
    /\ ret.id \notin Registered
    /\ \E sid \in stale : sid.interface = ret.id
    /\ \E o \in Registered :
         /\ devices[o].inner.sockets # {}
         /\ devices[o].inner.events # << >>
         /\ devices[o].inner.out # << >>

====
